---------------------------- MODULE Spec2Model ----------------------------
(* A model of source-stripe's stream engine (source_stripe/streams.py):    *)
(* StripeStream pagination, IncrementalStripeStream cursor handling, the   *)
(* StripeSubStream parent/child composition and CheckoutSessionsLineItems. *)
(* Python mappings are functions from string keys; None and {} are both    *)
(* the empty mapping (they are interchangeable under Python truthiness,    *)
(* which is the only way the code inspects them).                          *)
EXTENDS Integers, Sequences, FiniteSets, TLC

(***************************************************************************)
(* Bounds of the model.                                                    *)
(***************************************************************************)
\* largest number of parent records the API holds
MaxParents == 2
\* largest number of child items one parent owns
MaxChildren == 4
\* number of items the API returns per list page (stands for limit = 100)
PageSize == 2
\* number of child items the API embeds in a parent record
EmbedSize == 1

(***************************************************************************)
(* Python helpers.                                                         *)
(***************************************************************************)
None == [k \in {} |-> 0]

Truthy(m) == DOMAIN m # {}

\* bool(m.get(k)) for a key that holds an id (a number)
TruthyAt(m, k) == k \in DOMAIN m /\ m[k] # 0

\* dict.get(k, default)
Get(m, k, default) == IF k \in DOMAIN m THEN m[k] ELSE default

\* dict.update: the entries of new replace those of old
Update(old, new) == new @@ old

Min(a, b) == IF a <= b THEN a ELSE b

Max(a, b) == IF a >= b THEN a ELSE b

RECURSIVE SelectSeqBy(_, _, _)
\* [i for i in items if i.get(attr) == value]
SelectSeqBy(items, attr, value) ==
    IF items = <<>> THEN <<>>
    ELSE LET rest == SelectSeqBy(Tail(items), attr, value)
         IN  IF attr \in DOMAIN Head(items) /\ Head(items)[attr] = value
             THEN <<Head(items)>> \o rest
             ELSE rest

(***************************************************************************)
(* The concrete sub-streams (class attributes).                            *)
(***************************************************************************)
SubStreams == {"InvoiceLineItems", "SubscriptionItems", "BankAccounts"}

parent(s) ==
    CASE s = "InvoiceLineItems" -> "Invoices"
      [] s = "SubscriptionItems" -> "Subscriptions"
      [] s = "BankAccounts" -> "Customers"

parent_id(s) ==
    CASE s = "InvoiceLineItems" -> "invoice_id"
      [] s = "SubscriptionItems" -> "subscription_id"
      [] s = "BankAccounts" -> "customer_id"

sub_items_attr(s) ==
    CASE s = "InvoiceLineItems" -> "lines"
      [] s = "SubscriptionItems" -> "items"
      [] s = "BankAccounts" -> "sources"

add_parent_id(s) == s = "InvoiceLineItems"

filter(s) ==
    IF s = "BankAccounts" THEN [attr |-> "object", value |-> "bank_account"]
    ELSE None


(***************************************************************************)
(* StripeStream: request shaping and the page token.                       *)
(***************************************************************************)
\* StripeStream.next_page_token
next_page_token(response) == None

\* StripeStream.request_params
StripeStream_request_params(token) ==
    LET params == [limit |-> 100]
    IN  IF Truthy(token) THEN Update(params, token) ELSE params

\* StripeStream.parse_response: response_json.get("data", [])
parse_response(response) == Get(response, "data", <<>>)

(***************************************************************************)
(* IncrementalStripeStream.                                                *)
(***************************************************************************)
cursor_field(s) == IF s = "InvoiceItems" THEN "date" ELSE "created"

\* seconds in one day of a UTC datetime
SecondsPerDay == 86400

Abs(n) == IF n < 0 THEN -n ELSE n

\* pendulum.from_timestamp(t): the UTC date-time of an epoch second, as a
\* day number and the second within that day
from_timestamp(t) == [day |-> t \div SecondsPerDay, second |-> t % SecondsPerDay]

\* DateTime.subtract(days = n)
subtract_days(dt, n) == [dt EXCEPT !.day = dt.day - n]

\* int(DateTime.timestamp())
timestamp(dt) == dt.day * SecondsPerDay + dt.second

\* get_start_timestamp that subtracts the lookback window from a zero start too
get_start_timestamp_unguarded(s, start_date, lookback_window_days, stream_state) ==
    LET start_point ==
            IF Truthy(stream_state) /\ cursor_field(s) \in DOMAIN stream_state
            THEN Max(start_date, stream_state[cursor_field(s)])
            ELSE start_date
    IN  IF lookback_window_days # 0
        THEN timestamp(subtract_days(from_timestamp(start_point),
                                     Abs(lookback_window_days)))
        ELSE start_point

\* IncrementalStripeStream.get_start_timestamp
get_start_timestamp(s, start_date, lookback_window_days, stream_state) ==
    LET start_point ==
            IF Truthy(stream_state) /\ cursor_field(s) \in DOMAIN stream_state
            THEN Max(start_date, stream_state[cursor_field(s)])
            ELSE start_date
    IN  IF start_point # 0 /\ lookback_window_days # 0
        THEN timestamp(subtract_days(from_timestamp(start_point),
                                     Abs(lookback_window_days)))
        ELSE start_point

\* request_params that sends the configured start_date as the bound
Incremental_request_params_start_date(s, start_date, lookback_window_days, stream_state, token) ==
    LET params == StripeStream_request_params(token)
    IN  IF start_date # 0
        THEN Update(params, "created[gte]" :> start_date)
        ELSE params

\* IncrementalStripeStream.request_params
Incremental_request_params(s, start_date, lookback_window_days, stream_state, token) ==
    LET params == StripeStream_request_params(token)
        start_timestamp ==
            get_start_timestamp(s, start_date, lookback_window_days, stream_state)
    IN  IF start_timestamp # 0
        THEN Update(params, "created[gte]" :> start_timestamp)
        ELSE params

\* Subscriptions.request_params adds status = "all" to the incremental ones
Parent_request_params(p, start_date, lookback_window_days, stream_state, token) ==
    LET params ==
            Incremental_request_params(p, start_date, lookback_window_days,
                                       stream_state, token)
    IN  IF p = "Subscriptions" THEN Update(params, "status" :> "all") ELSE params

\* get_updated_state taking the latest record's cursor value as it comes
get_updated_state_latest(s, current_stream_state, latest_record) ==
    cursor_field(s) :> latest_record[cursor_field(s)]

\* get_updated_state with a record that carries the cursor field
get_updated_state(s, current_stream_state, latest_record) ==
    cursor_field(s) :>
        Max(latest_record[cursor_field(s)],
            Get(current_stream_state, cursor_field(s), 0))

\* an interval is a finite number n or math.inf
Finite(n) == [inf |-> FALSE, n |-> n]

math_inf == [inf |-> TRUE, n |-> 0]

\* a checkpoint interval of two records
state_checkpoint_interval_two == Finite(2)

\* IncrementalStripeStream.state_checkpoint_interval
state_checkpoint_interval == math_inf

(***************************************************************************)
(* StripeSubStream: request shaping.                                       *)
(***************************************************************************)
\* request_params that copies the slice's starting_after whatever the page
\* token holds
StripeSubStream_request_params_slice_first(stream_slice, token) ==
    LET params == StripeStream_request_params(token)
    IN  IF Truthy(stream_slice) /\ TruthyAt(stream_slice, "starting_after")
        THEN Update(params, "starting_after" :> stream_slice["starting_after"])
        ELSE params

\* StripeSubStream.request_params
StripeSubStream_request_params(stream_slice, token) ==
    LET params == StripeStream_request_params(token)
    IN  IF /\ ~ TruthyAt(params, "starting_after")
           /\ Truthy(stream_slice)
           /\ TruthyAt(stream_slice, "starting_after")
        THEN Update(params, "starting_after" :> stream_slice["starting_after"])
        ELSE params

\* the request_params of the concrete sub-streams
request_params(s, stream_slice, token) ==
    CASE s = "InvoiceLineItems" ->
            StripeSubStream_request_params(stream_slice, token)
      [] s = "SubscriptionItems" ->
            Update(StripeSubStream_request_params(stream_slice, token),
                   "subscription" :> stream_slice[parent_id(s)])
      [] s = "BankAccounts" ->
            \* super().request_params(**kwargs): the slice is not passed on
            Update(StripeSubStream_request_params(None, token),
                   "object" :> "bank_account")

\* the path of the concrete sub-streams
path(s, stream_slice) ==
    CASE s = "InvoiceLineItems" -> <<"invoices", stream_slice[parent_id(s)], "lines">>
      [] s = "SubscriptionItems" -> <<"subscription_items">>
      [] s = "BankAccounts" -> <<"customers", stream_slice[parent_id(s)], "sources">>

\* the path of the parent streams
parent_path(p) ==
    CASE p = "Invoices" -> <<"invoices">>
      [] p = "Subscriptions" -> <<"subscriptions">>
      [] p = "Customers" -> <<"customers">>

(***************************************************************************)
(* The API behind the page fetcher: list endpoints that return the items   *)
(* after starting_after, PageSize at a time, with a has_more flag.         *)
(***************************************************************************)
\* a parent_id value that is the id of no parent
ForeignId == MaxParents + 1

\* the k-th child of parent p; an odd child is a card among bank accounts,
\* or an invoice line that already carries an invoice_id
Item(s, p, k, odd) ==
    LET base == [id |-> 10 * p + k,
                 object |-> CASE s = "InvoiceLineItems" -> "line_item"
                              [] s = "SubscriptionItems" -> "subscription_item"
                              [] s = "BankAccounts" ->
                                    IF odd THEN "card" ELSE "bank_account"]
    IN  IF s = "InvoiceLineItems" /\ odd
        THEN Update(base, "invoice_id" :> ForeignId)
        ELSE base

\* the children of parent p: n of them, the odd-th one odd (0: none)
Children(s, p, n, odd) == [k \in 1..n |-> Item(s, p, k, k = odd)]

\* the items of seq after the one whose id is after
AfterId(seq, after) ==
    LET at == {i \in 1..Len(seq) : seq[i].id = after}
        from == IF at = {} THEN 0 ELSE CHOOSE i \in at : TRUE
    IN  SubSeq(seq, from + 1, Len(seq))

\* one page of a list endpoint
ListPage(seq, params, honoursObject) ==
    LET rest == IF "starting_after" \in DOMAIN params
                THEN AfterId(seq, params["starting_after"])
                ELSE seq
        sel == IF honoursObject /\ "object" \in DOMAIN params
               THEN SelectSeqBy(rest, "object", params["object"])
               ELSE rest
    IN  [data |-> SubSeq(sel, 1, Min(PageSize, Len(sel))),
         has_more |-> Len(sel) > PageSize]

\* the parent record p as the API returns it: its children's first page
\* embedded, or the container left out, or the container empty
ParentRecord(s, p, kids, kind) ==
    CASE kind = "absent" -> ("id" :> p)
      [] kind = "empty" -> ("id" :> p) @@ (sub_items_attr(s) :> None)
      [] kind = "present" ->
            ("id" :> p) @@
            (sub_items_attr(s) :>
                [data |-> SubSeq(kids, 1, Min(EmbedSize, Len(kids))),
                 has_more |-> Len(kids) > EmbedSize])

\* the parent a sub-entity request is addressed to
Addressee(request) ==
    IF request.path[1] = "subscription_items"
    THEN request.params["subscription"]
    ELSE request.path[2]

(***************************************************************************)
(* State.                                                                  *)
(***************************************************************************)
VARIABLES
    \* a sub-stream read (StripeSubStream.read_records)
    stream,         \* the concrete sub-stream being read
    start_date,     \* config: start_date
    honoursObject,  \* whether the endpoint applies the object query parameter
    children,       \* the API's data: parent id -> its child items
    embedding,      \* the API's data: parent id -> how the parent record
                    \* embeds them ("present", "absent" or "empty")
    pc,             \* position of the read_records generator
    token,          \* next_page_token of the parent read
    page,           \* records of the parent page being iterated
    pidx,           \* index in page of the parent record being handled
    items,          \* the (filtered) embedded items of that record
    iidx,           \* number of embedded items already yielded
    stream_slice,   \* the overflow slice of that record, or None
    ovToken,        \* next_page_token of the overflow read
    ovPage,         \* records of the overflow page being iterated
    oidx,           \* number of records of ovPage already yielded
    response,       \* the last response received
    emitted,        \* the records yielded so far
    requests,       \* the requests issued so far (for: the parent record
                    \* being handled, 0 for a request of the parent read)
    \* an incremental read with its checkpoints
    incStream,      \* the incremental stream being read
    incConfig,      \* config: start_date and lookback_window_days
    incRecords,     \* the API's data: the records of the stream, in list order
    prior,          \* the persisted CursorState the read started with
    persisted,      \* the persisted CursorState
    stream_state,   \* the CursorState the read works on
    checkpoints,    \* number of checkpoints taken during the read
    incPc,          \* position of the read
    incToken,       \* next_page_token of the read
    incPage,        \* records of the page being iterated
    incIdx,         \* number of records of incPage already yielded
    incResponse,    \* the last response received
    incEmitted,     \* the records yielded so far
    incRequests,    \* the requests issued so far
    \* a CheckoutSessionsLineItems read
    csSessions,     \* the API's data: per checkout session, the status its
                    \* line_items endpoint answers with and its line items
    csPc,           \* position of the read_records generator
    csToken,        \* next_page_token of the read of the checkout sessions
    csPage,         \* checkout sessions of the page being iterated
    csIdx,          \* index in csPage of the session being handled
    csItemToken,    \* next_page_token of the read of that session's line items
    csResponse,     \* the last response of the read of the checkout sessions
    csEmitted,      \* the records yielded so far
    csRequests,     \* the requests issued so far
    \* request shaping of an incremental stream
    fnIn,           \* the stream, its config, a stream state and a page token
    fnOut           \* the start timestamp and the request parameters computed

subVars == <<stream, start_date, honoursObject, children, embedding, pc, token, page, pidx,
             items, iidx, stream_slice, ovToken, ovPage, oidx, response,
             emitted, requests>>

incVars == <<incStream, incConfig, incRecords, prior, persisted, stream_state,
             checkpoints, incPc, incToken, incPage, incIdx, incResponse,
             incEmitted, incRequests>>

csVars == <<csSessions, csPc, csToken, csPage, csIdx, csItemToken, csResponse,
            csEmitted, csRequests>>

fnVars == <<fnIn, fnOut>>

vars == <<subVars, incVars, csVars, fnVars>>

\* the part of the state a read does not use
SubIdle ==
    /\ stream = "InvoiceLineItems" /\ start_date = 0 /\ honoursObject = TRUE
    /\ children = <<>> /\ embedding = <<>>
    /\ pc = "idle" /\ token = None /\ page = <<>>
    /\ pidx = 0 /\ items = <<>> /\ iidx = 0 /\ stream_slice = None
    /\ ovToken = None /\ ovPage = <<>> /\ oidx = 0 /\ response = None
    /\ emitted = <<>> /\ requests = <<>>

IncIdle ==
    /\ incStream = "Customers" /\ incConfig = None /\ incRecords = <<>>
    /\ prior = None /\ persisted = None /\ stream_state = None
    /\ checkpoints = 0 /\ incPc = "idle" /\ incToken = None
    /\ incPage = <<>> /\ incIdx = 0 /\ incResponse = None
    /\ incEmitted = <<>> /\ incRequests = <<>>

CsIdle ==
    /\ csSessions = <<>> /\ csPc = "idle" /\ csToken = None /\ csPage = <<>>
    /\ csIdx = 0 /\ csItemToken = None /\ csResponse = None
    /\ csEmitted = <<>> /\ csRequests = <<>>

FnIdle == fnIn = None /\ fnOut = None

(***************************************************************************)
(* A sub-stream read: StripeSubStream.read_records over the paginated read *)
(* of the parent stream and of the sub-stream's own endpoint.              *)
(***************************************************************************)
\* the start dates a read is configured with
StartDates == {0, 1000}

\* the shapes of one parent's children: <<how many, which one is odd>>
Shapes(s) ==
    {sh \in (0..MaxChildren) \X (0..MaxChildren) :
        /\ sh[2] <= sh[1]
        /\ (s = "SubscriptionItems" => sh[2] = 0)}

SubInit ==
    /\ stream \in SubStreams
    /\ start_date \in StartDates
    /\ honoursObject \in (IF stream = "BankAccounts" THEN BOOLEAN ELSE {TRUE})
    /\ \E n \in 1..MaxParents :
         \E shape \in [1..n -> Shapes(stream)] :
            /\ children = [p \in 1..n |->
                              Children(stream, p, shape[p][1], shape[p][2])]
            /\ embedding = [p \in 1..n |-> "present"]
    /\ pc = "parent_fetch" /\ token = None /\ page = <<>>
    /\ pidx = 0 /\ items = <<>> /\ iidx = 0 /\ stream_slice = None
    /\ ovToken = None /\ ovPage = <<>> /\ oidx = 0 /\ response = None
    /\ emitted = <<>> /\ requests = <<>>

\* the parent records the API holds, in list order
ParentRecords ==
    [p \in 1..Len(children) |->
        ParentRecord(stream, p, children[p], embedding[p])]

\* the parent record being handled
record == page[pidx]

\* the request of the parent read if the parent stream were built with the
\* configured lookback window and read with the persisted state
ParentRequest_resuming ==
    [path |-> parent_path(parent(stream)),
     params |-> Parent_request_params(parent(stream), start_date,
                    incConfig.lookback_window_days, persisted, token),
     for |-> 0]

\* the request of the parent read: the parent stream is built with start_date
\* only (its lookback_window_days is the default, 0) and read without a state
ParentRequest ==
    [path |-> parent_path(parent(stream)),
     params |-> Parent_request_params(parent(stream), start_date, 0, None, token),
     for |-> 0]

\* one iteration of the paginated read of the parent stream: the request is
\* built and sent, and the page parsed
FetchParentPage ==
    /\ pc = "parent_fetch"
    /\ LET request == ParentRequest
           resp == ListPage(ParentRecords, request.params, TRUE)
       IN  /\ requests' = Append(requests, request)
           /\ response' = resp
           /\ page' = parse_response(resp)
    /\ pidx' = 1
    /\ pc' = "parent_iter"
    /\ UNCHANGED <<stream, start_date, honoursObject, children, embedding, token, items,
                   iidx, stream_slice, ovToken, ovPage, oidx, emitted>>
    /\ UNCHANGED <<incVars, csVars, fnVars>>

\* the parent page is used up: the read asks for the next page token, and
\* goes on with the next page or ends
ParentPageDone ==
    /\ pc = "parent_iter"
    /\ pidx > Len(page)
    /\ token' = next_page_token(response)
    /\ pc' = IF Truthy(token') THEN "parent_fetch" ELSE "done"
    /\ UNCHANGED <<stream, start_date, honoursObject, children, embedding, page, pidx,
                   items, iidx, stream_slice, ovToken, ovPage, oidx, response,
                   emitted, requests>>
    /\ UNCHANGED <<incVars, csVars, fnVars>>

\* the embedded items of a parent record with no filter applied
EmbeddedItems_unfiltered(s, rec) ==
    Get(Get(rec, sub_items_attr(s), None), "data", <<>>)

\* the embedded items of a parent record after the sub-stream's filter
EmbeddedItems(s, rec) ==
    LET items_obj == Get(rec, sub_items_attr(s), None)
        data == Get(items_obj, "data", <<>>)
    IN  IF Truthy(filter(s))
        THEN SelectSeqBy(data, filter(s).attr, filter(s).value)
        ELSE data

\* the overflow slice of a parent record: set when has_more and items
OverflowSlice(s, rec) ==
    LET items_obj == Get(rec, sub_items_attr(s), None)
        its == EmbeddedItems(s, rec)
    IN  IF Get(items_obj, "has_more", FALSE) /\ its # <<>>
        THEN (parent_id(s) :> rec["id"]) @@
             ("starting_after" :> its[Len(its)]["id"])
        ELSE None

\* the loop body when a parent record without a container ends the loop
TakeParentRecord_break ==
    /\ pc = "parent_iter"
    /\ pidx <= Len(page)
    /\ IF ~ Truthy(Get(record, sub_items_attr(stream), None))
       THEN /\ pc' = "done"
            /\ UNCHANGED <<pidx, items, iidx, stream_slice>>
       ELSE /\ items' = EmbeddedItems(stream, record)
            /\ stream_slice' = OverflowSlice(stream, record)
            /\ iidx' = 0
            /\ pc' = "embedded"
            /\ UNCHANGED pidx
    /\ UNCHANGED <<stream, start_date, honoursObject, children, embedding, token, page,
                   ovToken, ovPage, oidx, response, emitted, requests>>
    /\ UNCHANGED <<incVars, csVars, fnVars>>

\* the loop body when the overflow read is iterated ahead of the embedded
\* items
TakeParentRecord_overflow_first ==
    /\ pc = "parent_iter"
    /\ pidx <= Len(page)
    /\ IF ~ Truthy(Get(record, sub_items_attr(stream), None))
       THEN /\ pidx' = pidx + 1
            /\ UNCHANGED <<pc, items, iidx, stream_slice>>
       ELSE /\ items' = EmbeddedItems(stream, record)
            /\ stream_slice' = OverflowSlice(stream, record)
            /\ iidx' = 0
            /\ pc' = IF Truthy(stream_slice') THEN "overflow_fetch" ELSE "embedded"
            /\ UNCHANGED pidx
    /\ UNCHANGED <<stream, start_date, honoursObject, children, embedding, token, page,
                   ovToken, ovPage, oidx, response, emitted, requests>>
    /\ UNCHANGED <<incVars, csVars, fnVars>>

\* the loop body up to the chain over the items, for the next parent record
TakeParentRecord ==
    /\ pc = "parent_iter"
    /\ pidx <= Len(page)
    /\ IF ~ Truthy(Get(record, sub_items_attr(stream), None))
       THEN \* if not items_obj: continue
            /\ pidx' = pidx + 1
            /\ UNCHANGED <<pc, items, iidx, stream_slice>>
       ELSE /\ items' = EmbeddedItems(stream, record)
            /\ stream_slice' = OverflowSlice(stream, record)
            /\ iidx' = 0
            /\ pc' = "embedded"
            /\ UNCHANGED pidx
    /\ UNCHANGED <<stream, start_date, honoursObject, children, embedding, token, page,
                   ovToken, ovPage, oidx, response, emitted, requests>>
    /\ UNCHANGED <<incVars, csVars, fnVars>>

\* the item as yielded when the parent's id is stored only in an item that
\* has no such field yet
WithParentId_if_absent(s, item, rec) ==
    IF add_parent_id(s) /\ parent_id(s) \notin DOMAIN item
    THEN Update(item, parent_id(s) :> rec["id"])
    ELSE item

\* the item as yielded: with add_parent_id the parent's id is stored in it
WithParentId(s, item, rec) ==
    IF add_parent_id(s)
    THEN Update(item, parent_id(s) :> rec["id"])
    ELSE item

\* the chain yields the next embedded item
YieldEmbedded ==
    /\ pc = "embedded"
    /\ iidx < Len(items)
    /\ iidx' = iidx + 1
    /\ emitted' = Append(emitted,
                    [item |-> WithParentId(stream, items[iidx + 1], record),
                     parent |-> record["id"], from |-> "embedded"])
    /\ UNCHANGED <<stream, start_date, honoursObject, children, embedding, pc, token, page,
                   pidx, items, stream_slice, ovToken, ovPage, oidx, response,
                   requests>>
    /\ UNCHANGED <<incVars, csVars, fnVars>>

\* the chain when the overflow read is run at once, whatever is left of the
\* embedded items
EmbeddedDone_eager ==
    /\ pc = "embedded"
    /\ iidx <= Len(items)
    /\ IF Truthy(stream_slice)
       THEN pc' = "overflow_fetch" /\ ovToken' = None /\ UNCHANGED pidx
       ELSE pc' = "parent_iter" /\ pidx' = pidx + 1 /\ UNCHANGED ovToken
    /\ UNCHANGED <<stream, start_date, honoursObject, children, embedding, token, page,
                   items, iidx, stream_slice, ovPage, oidx, response, emitted,
                   requests>>
    /\ UNCHANGED <<incVars, csVars, fnVars>>

\* the embedded items are used up: the chain turns to the overflow read when
\* there is one, and the loop to the next parent record otherwise
EmbeddedDone ==
    /\ pc = "embedded"
    /\ iidx = Len(items)
    /\ IF Truthy(stream_slice)
       THEN pc' = "overflow_fetch" /\ ovToken' = None /\ UNCHANGED pidx
       ELSE pc' = "parent_iter" /\ pidx' = pidx + 1 /\ UNCHANGED ovToken
    /\ UNCHANGED <<stream, start_date, honoursObject, children, embedding, token, page,
                   items, iidx, stream_slice, ovPage, oidx, response, emitted,
                   requests>>
    /\ UNCHANGED <<incVars, csVars, fnVars>>

\* the request of the overflow read for the parent record at hand
OverflowRequest ==
    [path |-> path(stream, stream_slice),
     params |-> request_params(stream, stream_slice, ovToken),
     for |-> record["id"]]

\* one iteration of the paginated read of the sub-stream's own endpoint
FetchOverflowPage ==
    /\ pc = "overflow_fetch"
    /\ LET request == OverflowRequest
           resp == ListPage(children[Addressee(request)], request.params,
                            honoursObject)
       IN  /\ requests' = Append(requests, request)
           /\ response' = resp
           /\ ovPage' = parse_response(resp)
    /\ oidx' = 0
    /\ pc' = "overflow_iter"
    /\ UNCHANGED <<stream, start_date, honoursObject, children, embedding, token, page,
                   pidx, items, iidx, stream_slice, ovToken, emitted>>
    /\ UNCHANGED <<incVars, csVars, fnVars>>

\* the chain yields the next record of the overflow page
YieldOverflow ==
    /\ pc = "overflow_iter"
    /\ oidx < Len(ovPage)
    /\ oidx' = oidx + 1
    /\ emitted' = Append(emitted,
                    [item |-> WithParentId(stream, ovPage[oidx + 1], record),
                     parent |-> record["id"], from |-> "overflow"])
    /\ UNCHANGED <<stream, start_date, honoursObject, children, embedding, pc, token, page,
                   pidx, items, iidx, stream_slice, ovToken, ovPage, response,
                   requests>>
    /\ UNCHANGED <<incVars, csVars, fnVars>>

\* the overflow page is used up: the read asks for the next page token, and
\* goes on with the next page or ends, the loop turning to the next parent
OverflowPageDone ==
    /\ pc = "overflow_iter"
    /\ oidx = Len(ovPage)
    /\ ovToken' = next_page_token(response)
    /\ IF Truthy(ovToken')
       THEN pc' = "overflow_fetch" /\ UNCHANGED pidx
       ELSE pc' = "parent_iter" /\ pidx' = pidx + 1
    /\ UNCHANGED <<stream, start_date, honoursObject, children, embedding, token, page,
                   items, iidx, stream_slice, ovPage, oidx, response, emitted,
                   requests>>
    /\ UNCHANGED <<incVars, csVars, fnVars>>

Init == SubInit /\ IncIdle /\ CsIdle /\ FnIdle

Next ==
    \/ FetchParentPage
    \/ ParentPageDone
    \/ TakeParentRecord
    \/ YieldEmbedded
    \/ EmbeddedDone
    \/ FetchOverflowPage
    \/ YieldOverflow
    \/ OverflowPageDone

Spec == Init /\ [][Next]_vars

(***************************************************************************)
(* Properties of the sub-stream read.                                      *)
(***************************************************************************)
RECURSIVE Ids(_)
\* the ids of a sequence of items
Ids(seq) == IF seq = <<>> THEN <<>> ELSE <<Head(seq)["id"]>> \o Ids(Tail(seq))

RECURSIVE EmittedFor(_, _)
\* the items yielded for parent p, in order
EmittedFor(log, p) ==
    IF log = <<>> THEN <<>>
    ELSE IF Head(log).parent = p
         THEN <<Head(log).item>> \o EmittedFor(Tail(log), p)
         ELSE EmittedFor(Tail(log), p)

RECURSIVE RequestsFor(_, _)
\* the requests issued while parent p was handled, in order
RequestsFor(log, p) ==
    IF log = <<>> THEN <<>>
    ELSE IF Head(log).for = p
         THEN <<Head(log)>> \o RequestsFor(Tail(log), p)
         ELSE RequestsFor(Tail(log), p)

\* the parent records of the current page the loop is through with
Handled == {page[i] : i \in 1..Min(pidx - 1, Len(page))}

\* the embedded container of a parent record
Container(rec) == rec[sub_items_attr(stream)]

\* the child collection of the sub-stream for parent p: what its list
\* endpoint holds (for BankAccounts, the bank accounts among the sources)
ChildCollection(p) ==
    IF Truthy(filter(stream))
    THEN SelectSeqBy(children[p], filter(stream).attr, filter(stream).value)
    ELSE children[p]

\* C1: for every parent record with has_more and at least one embedded item
\* (of the sub-stream's kind, where it has a filter),
\* the records emitted for it are the embedded items followed by all items of
\* all overflow pages, in order: the whole child collection, nothing twice
\* and nothing missing
C1_SubStreamCompleteness ==
    \A rec \in Handled :
        (Container(rec).has_more /\ EmbeddedItems(stream, rec) # <<>>)
        => Ids(EmittedFor(emitted, rec["id"])) = Ids(ChildCollection(rec["id"]))

\* C6 as stated: every record BankAccounts emits, embedded or overflow, is a
\* bank account, whatever the overflow pages hold
C6_AllEmittedAreBankAccounts ==
    stream = "BankAccounts"
    => \A i \in 1..Len(emitted) : emitted[i].item["object"] = "bank_account"

\* C6 as amended: every record BankAccounts takes from an embedded container
\* is a bank account; overflow records are emitted as the endpoint returns
\* them, every overflow request carrying object = bank_account, so they are
\* bank accounts whenever the endpoint applies that parameter
C6_FilterProperty ==
    stream = "BankAccounts"
    => /\ \A i \in 1..Len(emitted) :
            (emitted[i].from = "embedded" \/ honoursObject)
            => emitted[i].item["object"] = "bank_account"
       /\ \A i \in 1..Len(requests) :
            requests[i].for # 0
            => /\ "object" \in DOMAIN requests[i].params
               /\ requests[i].params["object"] = "bank_account"

\* C6 witness: a customer whose embedded sources held a card is done with,
\* and embedded and overflow records were emitted, the endpoint not applying
\* the object parameter
C6_Witness ==
    /\ stream = "BankAccounts"
    /\ ~ honoursObject
    /\ \E rec \in Handled :
         \E k \in 1..Len(Container(rec).data) :
            Container(rec).data[k]["object"] = "card"
    /\ \E i, j \in 1..Len(emitted) :
         emitted[i].from = "embedded" /\ emitted[j].from = "overflow"

\* the parent whose child collection holds the item with this id
OwnerOf(id) ==
    {p \in 1..Len(children) : \E k \in 1..Len(children[p]) : children[p][k]["id"] = id}

C10_OverflowTriggerAndSlice ==
    \A rec \in Handled :
        LET reqs == RequestsFor(requests, rec["id"])
            data == EmbeddedItems(stream, rec)
        IN  /\ (reqs # <<>>) <=> (Container(rec).has_more /\ data # <<>>)
            /\ reqs # <<>>
               => /\ Addressee(reqs[1]) = rec["id"]
                  /\ "starting_after" \in DOMAIN reqs[1].params
                  /\ reqs[1].params["starting_after"] = data[Len(data)]["id"]

\* the child item of the API a yielded record was made from
SourceOf(e) ==
    LET kids == children[e.parent]
    IN  kids[CHOOSE k \in 1..Len(kids) : kids[k]["id"] = e.item["id"]]

\* C11: with add_parent_id set, an item (embedded or overflow) that already
\* carries a value under the parent_id field is emitted with that value
\* unchanged; the parent's id is stored only in the items that lack the field
C11_ParentIdNotOverwritten ==
    add_parent_id(stream)
    => \A i \in 1..Len(emitted) :
          emitted[i].item[parent_id(stream)] =
              Get(SourceOf(emitted[i]), parent_id(stream), emitted[i].parent)

\* the place of parent p in the API's list of parent records
ParentPos(p) ==
    CHOOSE i \in 1..Len(ParentRecords) : ParentRecords[i]["id"] = p

\* the ids of the parent records the parent request req was answered with
ParentPageIds(req) ==
    LET data == parse_response(ListPage(ParentRecords, req.params, TRUE))
    IN  {data[i]["id"] : i \in 1..Len(data)}

\* the records of log that came from the embedded container or from overflow
\* pages (from) of parent p
EmittedFrom(log, p, from) ==
    {i \in 1..Len(log) : log[i].parent = p /\ log[i].from = from}

\* C12: a sub-stream read is sequential: the parent page is fetched first;
\* the records are emitted parent by parent in the order of the parent page,
\* for each parent its embedded items and then its overflow records; an
\* overflow request is issued only for a parent of a page fetched before, in
\* parent order, after all embedded items of that parent were emitted and
\* before any of its overflow records; and a step issues at most one request,
\* whose response it receives before anything else happens
C12_SequentialOrder ==
    /\ [](/\ (emitted # <<>> \/ pc # "parent_fetch") => requests # <<>>
          /\ requests # <<>> => requests[1].for = 0
          /\ \A i, j \in 1..Len(emitted) :
                i < j => /\ ParentPos(emitted[i].parent) <= ParentPos(emitted[j].parent)
                         /\ (emitted[i].parent = emitted[j].parent
                             => ~ (emitted[i].from = "overflow"
                                   /\ emitted[j].from = "embedded"))
          /\ \A i \in 1..Len(requests) :
                requests[i].for # 0
                => /\ Addressee(requests[i]) = requests[i].for
                   /\ \E j \in 1..(i - 1) :
                        /\ requests[j].for = 0
                        /\ requests[i].for \in ParentPageIds(requests[j])
                   /\ \A j \in 1..(i - 1) :
                        requests[j].for # 0
                        => ParentPos(requests[j].for) <= ParentPos(requests[i].for)
                   /\ Cardinality(EmittedFrom(emitted, requests[i].for, "embedded"))
                        = Len(EmbeddedItems(stream,
                                  ParentRecords[ParentPos(requests[i].for)]))
          /\ \A i \in 1..Len(emitted) :
                /\ emitted[i].parent \in
                      UNION {ParentPageIds(requests[j]) :
                                j \in {k \in 1..Len(requests) : requests[k].for = 0}}
                /\ emitted[i].from = "overflow"
                   => RequestsFor(requests, emitted[i].parent) # <<>>)
    /\ [][requests' # requests
          => /\ Len(requests') = Len(requests) + 1
             /\ SubSeq(requests', 1, Len(requests)) = requests
             /\ emitted' = emitted
             /\ pc' \in {"parent_iter", "overflow_iter"}]_vars

\* C12 witness: the read is done, with embedded and overflow records emitted
\* for two parent records
C12_Witness ==
    /\ pc = "done"
    /\ \E p, q \in 1..Len(children) :
          /\ p # q
          /\ \A r \in {p, q} :
                /\ EmittedFrom(emitted, r, "embedded") # {}
                /\ EmittedFrom(emitted, r, "overflow") # {}

(***************************************************************************)
(* An incremental read: the paginated read of an IncrementalStripeStream   *)
(* for its one slice, driven by the sync loop that updates the cursor      *)
(* state record by record and checkpoints it.                              *)
(***************************************************************************)
\* largest number of records the API holds for the stream
MaxRecords == 3
\* largest lookback_window_days configured
MaxLookback == 2

\* the cursor values of records and states
CursorValues == {1000, 90000, 200000}

\* the read streams: one per cursor field and request shape
ReadStreams == {"Customers", "InvoiceItems", "Subscriptions"}

\* the sequences over S of length n
SeqsOfLen(S, n) == [1..n -> S]

\* the records of stream s with the cursor values cs
RecordsWith(s, cs) == [k \in 1..Len(cs) |-> ("id" :> k) @@ (cursor_field(s) :> cs[k])]

\* a page of a list endpoint that also applies created[gte], to the field the
\* stream uses as its cursor
ListPageSince(seq, params, field) ==
    LET since == IF "created[gte]" \in DOMAIN params
                 THEN params["created[gte]"] ELSE 0
        RECURSIVE Since(_)
        Since(q) == IF q = <<>> THEN <<>>
                    ELSE IF Head(q)[field] >= since
                         THEN <<Head(q)>> \o Since(Tail(q))
                         ELSE Since(Tail(q))
    IN  ListPage(Since(seq), params, TRUE)

\* n % interval
PyMod(n, interval) == IF interval.inf THEN n ELSE n % interval.n

\* the sync loop's test after the n-th record:
\* checkpoint_interval and n % checkpoint_interval == 0
CheckpointDue(interval, n) ==
    /\ interval.inf \/ interval.n # 0
    /\ PyMod(n, interval) = 0

IncInit ==
    /\ incStream \in ReadStreams
    /\ incConfig \in [start_date : StartDates, lookback_window_days : 0..MaxLookback]
    /\ \E n \in 0..MaxRecords :
         \E cs \in SeqsOfLen(CursorValues, n) :
            incRecords = RecordsWith(incStream, cs)
    /\ prior \in {None} \cup {cursor_field(incStream) :> v : v \in {0} \cup CursorValues}
    /\ persisted = prior
    /\ stream_state = prior
    /\ checkpoints = 0 /\ incPc = "fetch" /\ incToken = None
    /\ incPage = <<>> /\ incIdx = 0 /\ incResponse = None
    /\ incEmitted = <<>> /\ incRequests = <<>>

\* one iteration of the paginated read: the request is built with the state
\* the read was started with, sent, and the page parsed
IncFetchPage ==
    /\ incPc = "fetch"
    /\ LET request == [params |-> Parent_request_params(incStream,
                                      incConfig.start_date,
                                      incConfig.lookback_window_days,
                                      prior, incToken)]
           resp == ListPageSince(incRecords, request.params, cursor_field(incStream))
       IN  /\ incRequests' = Append(incRequests, request)
           /\ incResponse' = resp
           /\ incPage' = parse_response(resp)
    /\ incIdx' = 0
    /\ incPc' = "iter"
    /\ UNCHANGED <<incStream, incConfig, incRecords, prior, persisted,
                   stream_state, checkpoints, incToken, incEmitted>>
    /\ UNCHANGED <<subVars, csVars, fnVars>>

\* the read yields the next record; the sync loop updates the state with it
\* and checkpoints when the stream's checkpoint interval says so
IncYield ==
    /\ incPc = "iter"
    /\ incIdx < Len(incPage)
    /\ incIdx' = incIdx + 1
    /\ incEmitted' = Append(incEmitted, incPage[incIdx + 1])
    /\ stream_state' = get_updated_state(incStream, stream_state, incPage[incIdx + 1])
    /\ IF CheckpointDue(state_checkpoint_interval, Len(incEmitted'))
       THEN persisted' = stream_state' /\ checkpoints' = checkpoints + 1
       ELSE UNCHANGED <<persisted, checkpoints>>
    /\ UNCHANGED <<incStream, incConfig, incRecords, prior, incPc, incToken,
                   incPage, incResponse, incRequests>>
    /\ UNCHANGED <<subVars, csVars, fnVars>>

\* the page is used up: the read asks for the next page token, and goes on
\* with the next page or ends
IncPageDone ==
    /\ incPc = "iter"
    /\ incIdx = Len(incPage)
    /\ incToken' = next_page_token(incResponse)
    /\ incPc' = IF Truthy(incToken') THEN "fetch" ELSE "read_done"
    /\ UNCHANGED <<incStream, incConfig, incRecords, prior, persisted,
                   stream_state, checkpoints, incPage, incIdx, incResponse,
                   incEmitted, incRequests>>
    /\ UNCHANGED <<subVars, csVars, fnVars>>

\* the read of the slice is over: the sync loop checkpoints the state
IncFinalCheckpoint ==
    /\ incPc = "read_done"
    /\ persisted' = stream_state
    /\ checkpoints' = checkpoints + 1
    /\ incPc' = "done"
    /\ UNCHANGED <<incStream, incConfig, incRecords, prior, stream_state,
                   incToken, incPage, incIdx, incResponse, incEmitted,
                   incRequests>>
    /\ UNCHANGED <<subVars, csVars, fnVars>>

\* the sync is interrupted before the read of the slice is over
IncInterrupt ==
    /\ incPc \in {"fetch", "iter", "read_done"}
    /\ incPc' = "interrupted"
    /\ UNCHANGED <<incStream, incConfig, incRecords, prior, persisted,
                   stream_state, checkpoints, incToken, incPage, incIdx,
                   incResponse, incEmitted, incRequests>>
    /\ UNCHANGED <<subVars, csVars, fnVars>>

InitInc == SubIdle /\ IncInit /\ CsIdle /\ FnIdle

NextInc ==
    \/ IncFetchPage
    \/ IncYield
    \/ IncPageDone
    \/ IncFinalCheckpoint
    \/ IncInterrupt

SpecInc == InitInc /\ [][NextInc]_vars

(***************************************************************************)
(* Properties of the incremental read.                                     *)
(***************************************************************************)
\* the records the list endpoint holds for the read's request: those at or
\* after the created[gte] bound the read sends
Eligible ==
    LET since == get_start_timestamp(incStream, incConfig.start_date,
                                     incConfig.lookback_window_days, prior)
    IN  SelectSeq(incRecords, LAMBDA r : r[cursor_field(incStream)] >= since)

\* C2: a read fetches page after page until the collection is exhausted, so
\* when it ends every record of every page of the collection was emitted,
\* in order
C2_PaginationToExhaustion ==
    incPc \in {"read_done", "done"} => Ids(incEmitted) = Ids(Eligible)

\* the cursor value of a state, 0 when it has none
CursorOf(state) == Get(state, cursor_field(incStream), 0)

RECURSIVE MaxCursor(_, _)
\* the largest of floor and the cursor values of the records
MaxCursor(floor, records) ==
    IF records = <<>> THEN floor
    ELSE MaxCursor(Max(floor, Head(records)[cursor_field(incStream)]), Tail(records))

\* C3: applying get_updated_state record by record never decreases the
\* cursor value, and after the records R the state is
\* {cursor_field: max(prior value or 0, max cursor of R)}, whatever R's order
C3_CursorMonotonicity ==
    [][ /\ CursorOf(stream_state') >= CursorOf(stream_state)
        /\ incEmitted' # <<>>
           => stream_state' =
                (cursor_field(incStream) :> MaxCursor(CursorOf(prior), incEmitted'))
      ]_vars

\* C3 witness: from no prior state, a record with a smaller cursor value
\* was read after one with a larger
C3_Witness ==
    /\ prior = None
    /\ Len(incEmitted) >= 2
    /\ incEmitted[2][cursor_field(incStream)] < incEmitted[1][cursor_field(incStream)]

\* C5: during a read the cursor state is not persisted after a strict prefix
\* of the records: there is at most one checkpoint, taken only once the
\* read is over, and until then the persisted state is the one the read
\* started with
C5_CheckpointDeferral ==
    /\ checkpoints <= 1
    /\ incPc # "done" => (checkpoints = 0 /\ persisted = prior)
    /\ incPc = "done" => (checkpoints = 1 /\ persisted = stream_state)

\* C5 witness: a read interrupted after two records that advanced the
\* cursor, the persisted state still the prior one
C5_Witness ==
    /\ incPc = "interrupted"
    /\ Len(incEmitted) >= 2
    /\ CursorOf(stream_state) > CursorOf(prior)
    /\ persisted = prior

(***************************************************************************)
(* Request shaping of an incremental stream: get_start_timestamp and       *)
(* request_params applied to a config, a stream state and a page token.    *)
(***************************************************************************)
\* the timestamps of configs and states
Timestamps == {0, 1000, 90000, 200000}

\* the stream states: none, or a value under one of the cursor field names
StreamStates ==
    {None} \cup {"created" :> v : v \in Timestamps}
           \cup {"date" :> v : v \in Timestamps}

\* the page tokens: none, or a continuation after some record
PageTokens == {None, [starting_after |-> 11]}

FnInit ==
    /\ fnIn \in [stream : {"Customers", "InvoiceItems"},
                 start_date : Timestamps,
                 lookback_window_days : 0..MaxLookback,
                 stream_state : StreamStates,
                 next_page_token : PageTokens]
    /\ fnOut = None

\* the stream builds a request
FnBuildRequest ==
    /\ fnOut = None
    /\ fnOut' = [start_timestamp |->
                    get_start_timestamp(fnIn.stream, fnIn.start_date,
                        fnIn.lookback_window_days, fnIn.stream_state),
                 params |->
                    Incremental_request_params(fnIn.stream, fnIn.start_date,
                        fnIn.lookback_window_days, fnIn.stream_state,
                        fnIn.next_page_token)]
    /\ UNCHANGED fnIn
    /\ UNCHANGED <<subVars, incVars, csVars>>

InitFn == SubIdle /\ IncIdle /\ CsIdle /\ FnInit

NextFn == FnBuildRequest

SpecFn == InitFn /\ [][NextFn]_vars

\* whether the state of the request carries the stream's cursor field
HasCursor == cursor_field(fnIn.stream) \in DOMAIN fnIn.stream_state

\* state[cursor_field], or 0
StateValue == Get(fnIn.stream_state, cursor_field(fnIn.stream), 0)

\* max(start_date, state[cursor_field] or 0)
EffectiveStart == Max(fnIn.start_date, StateValue)

\* C4 as stated: with a lookback of d > 0 days and a state value T, the start
\* timestamp is T - d * 86400 whatever the start_date, and no lookback is
\* subtracted when T = 0
C4_LookbackFromState ==
    (fnOut # None /\ fnIn.lookback_window_days > 0 /\ HasCursor)
    => IF StateValue = 0
       THEN fnOut.start_timestamp = fnIn.start_date
       ELSE fnOut.start_timestamp = StateValue - fnIn.lookback_window_days * 86400

\* C4 as amended: with a lookback of d > 0 days and a state value T, the start
\* timestamp is max(start_date, T) - d * 86400 when max(start_date, T) is not
\* zero (so T - d * 86400 whenever T >= start_date and T > 0), and no lookback
\* is subtracted when max(start_date, T) = 0: the result is 0
C4_LookbackWindow ==
    (fnOut # None /\ fnIn.lookback_window_days > 0 /\ HasCursor)
    => /\ EffectiveStart # 0
          => fnOut.start_timestamp =
                EffectiveStart - fnIn.lookback_window_days * 86400
       /\ (StateValue >= fnIn.start_date /\ StateValue > 0)
          => fnOut.start_timestamp =
                StateValue - fnIn.lookback_window_days * 86400
       /\ EffectiveStart = 0 => fnOut.start_timestamp = 0

\* C4 witness: a lookback applied to a state value above the start_date
C4_Witness ==
    /\ fnOut # None
    /\ fnIn.lookback_window_days > 0
    /\ HasCursor
    /\ StateValue > fnIn.start_date
    /\ fnIn.start_date > 0
    /\ fnOut.start_timestamp > 0

\* the bound the stream is to send: the effective start, less the lookback
\* window when one is configured and the effective start is not zero
ExpectedBound ==
    IF fnIn.lookback_window_days # 0 /\ EffectiveStart # 0
    THEN EffectiveStart - fnIn.lookback_window_days * 86400
    ELSE EffectiveStart

\* C9 as stated: every request the stream builds, first page or continuation,
\* carries created[gte] = the effective start less the lookback window
C9_BoundInEveryRequest ==
    fnOut # None
    => /\ "created[gte]" \in DOMAIN fnOut.params
       /\ fnOut.params["created[gte]"] = ExpectedBound

\* C9 as amended: the bound is max(start_date, state[cursor_field] or 0), less
\* the lookback window only when one is configured and that start is not
\* zero; every request, first page or continuation, carries it as
\* created[gte] when it is not zero, and carries no created[gte] when it is
C9_EffectiveStartFilter ==
    fnOut # None
    => /\ fnOut.start_timestamp = ExpectedBound
       /\ ExpectedBound # 0
          => /\ "created[gte]" \in DOMAIN fnOut.params
             /\ fnOut.params["created[gte]"] = ExpectedBound
       /\ ExpectedBound = 0 => "created[gte]" \notin DOMAIN fnOut.params

\* C9 witness: a continuation request built from a state above the
\* start_date with a lookback configured, carrying the bound
C9_Witness ==
    /\ fnOut # None
    /\ Truthy(fnIn.next_page_token)
    /\ fnIn.lookback_window_days > 0
    /\ HasCursor /\ StateValue > fnIn.start_date
    /\ "created[gte]" \in DOMAIN fnOut.params
    /\ "starting_after" \in DOMAIN fnOut.params

(***************************************************************************)
(* A CheckoutSessionsLineItems read: the line items of every checkout      *)
(* session of the parent read, a 404 answer counting as no line items.     *)
(***************************************************************************)
\* largest number of checkout sessions the API holds
MaxSessions == 3
\* largest number of line items of one checkout session
MaxLineItems == 1

\* the status codes the line_items endpoint answers with
Statuses == {200, 404, 403, 500}

\* requests.Response.raise_for_status raises for a 4xx or 5xx status
raise_for_status(status_code) == 400 <= status_code /\ status_code < 600

\* CheckoutSessionsLineItems.request_params
CheckoutSessionsLineItems_request_params(slice, page_token) ==
    Update(StripeStream_request_params(page_token),
           "expand[]" :> <<"data.discounts", "data.taxes">>)

\* parse_response that treats a 404 like any other error status
CheckoutSessionsLineItems_parse_response_strict(resp, slice) ==
    IF raise_for_status(resp.status_code)
    THEN [raised |-> TRUE, records |-> <<>>]
    ELSE LET data == Get(resp.json, "data", <<>>)
         IN  [raised |-> FALSE,
              records |->
                IF data # <<>> /\ Truthy(slice)
                THEN [k \in 1..Len(data) |->
                        Update(data[k], "checkout_session_id" :>
                            slice["checkout_session_id"])]
                ELSE data]

\* CheckoutSessionsLineItems.parse_response: the records it yields, or that
\* it raised
CheckoutSessionsLineItems_parse_response(resp, slice) ==
    IF resp.status_code = 404
    THEN [raised |-> FALSE, records |-> <<>>]
    ELSE IF raise_for_status(resp.status_code)
    THEN [raised |-> TRUE, records |-> <<>>]
    ELSE LET data == Get(resp.json, "data", <<>>)
         IN  [raised |-> FALSE,
              records |->
                IF data # <<>> /\ Truthy(slice)
                THEN [k \in 1..Len(data) |->
                        Update(data[k], "checkout_session_id" :>
                            slice["checkout_session_id"])]
                ELSE data]

\* the answer of the line_items endpoint of a checkout session: a page of
\* its line items when the status is 200, an error body otherwise
LineItemsResponse(session, params) ==
    [status_code |-> session.status,
     json |-> IF session.status = 200
              THEN ListPage([k \in 1..session.lines |-> [id |-> 10 * session.id + k]],
                            params, TRUE)
              ELSE [error |-> "error"]]

CsInit ==
    /\ \E n \in 1..MaxSessions :
         \E st \in [1..n -> Statuses] :
            \E ln \in [1..n -> 0..MaxLineItems] :
               csSessions = [i \in 1..n |->
                                [id |-> i, status |-> st[i], lines |-> ln[i]]]
    /\ csPc = "parent_fetch" /\ csToken = None /\ csPage = <<>> /\ csIdx = 0
    /\ csItemToken = None /\ csResponse = None
    /\ csEmitted = <<>> /\ csRequests = <<>>

\* one iteration of the paginated read of the CheckoutSessions stream
CsFetchParentPage ==
    /\ csPc = "parent_fetch"
    /\ LET request == [path |-> <<"checkout", "sessions">>,
                       params |-> StripeStream_request_params(csToken)]
           resp == ListPage([i \in 1..Len(csSessions) |-> [id |-> csSessions[i].id]],
                            request.params, TRUE)
       IN  /\ csRequests' = Append(csRequests, request)
           /\ csResponse' = resp
           /\ csPage' = parse_response(resp)
    /\ csIdx' = 1
    /\ csPc' = "parent_iter"
    /\ UNCHANGED <<csSessions, csToken, csItemToken, csEmitted>>
    /\ UNCHANGED <<subVars, incVars, fnVars>>

\* one iteration of the paginated read of the line items of the checkout
\* session at hand: the request, the parsing of the answer, and the next
\* page token, without which the loop turns to the next checkout session
CsReadLineItems ==
    /\ csPc = "parent_iter"
    /\ csIdx <= Len(csPage)
    /\ LET slice == [checkout_session_id |-> csPage[csIdx]["id"]]
           request == [path |-> <<"checkout", "sessions",
                                  slice["checkout_session_id"], "line_items">>,
                       params |-> CheckoutSessionsLineItems_request_params(
                                      slice, csItemToken)]
           resp == LineItemsResponse(csSessions[slice["checkout_session_id"]],
                                     request.params)
           parsed == CheckoutSessionsLineItems_parse_response(resp, slice)
       IN  /\ csRequests' = Append(csRequests, request)
           /\ IF parsed.raised
              THEN csPc' = "error" /\ UNCHANGED <<csIdx, csItemToken, csEmitted>>
              ELSE /\ csEmitted' = csEmitted \o parsed.records
                   /\ csItemToken' = next_page_token(resp)
                   /\ csIdx' = IF Truthy(csItemToken') THEN csIdx ELSE csIdx + 1
                   /\ UNCHANGED csPc
    /\ UNCHANGED <<csSessions, csToken, csPage, csResponse>>
    /\ UNCHANGED <<subVars, incVars, fnVars>>

\* the page of checkout sessions is used up
CsParentPageDone ==
    /\ csPc = "parent_iter"
    /\ csIdx > Len(csPage)
    /\ csToken' = next_page_token(csResponse)
    /\ csPc' = IF Truthy(csToken') THEN "parent_fetch" ELSE "done"
    /\ UNCHANGED <<csSessions, csPage, csIdx, csItemToken, csResponse, csEmitted,
                   csRequests>>
    /\ UNCHANGED <<subVars, incVars, fnVars>>

InitCs == SubIdle /\ IncIdle /\ CsInit /\ FnIdle

NextCs ==
    \/ CsFetchParentPage
    \/ CsReadLineItems
    \/ CsParentPageDone

SpecCs == InitCs /\ [][NextCs]_vars

\* the records emitted for a checkout session
CsEmittedFor(id) ==
    SelectSeq(csEmitted, LAMBDA r : r["checkout_session_id"] = id)

\* C8: a 404 for a checkout session contributes no record and no error, and
\* the read goes on with the next session; any other non-2xx answer makes the
\* read fail
C8_NotFoundTolerated ==
    /\ \A i \in 1..Len(csPage) :
         LET session == csSessions[csPage[i]["id"]]
         IN  /\ (i < csIdx /\ session.status = 404)
                => /\ CsEmittedFor(session.id) = <<>>
                   /\ \E k \in 1..Len(csRequests) :
                        /\ Len(csRequests[k].path) = 4
                        /\ csRequests[k].path[3] = session.id
             /\ (i < csIdx) => session.status \in {200, 404}
             /\ (i < csIdx /\ session.status = 200 /\ session.lines > 0)
                => CsEmittedFor(session.id) # <<>>
             /\ (i = csIdx /\ session.status \notin {200, 404}
                 /\ Len(csRequests) > i)
                => csPc = "error"
    /\ csPc = "error" => csSessions[csPage[csIdx]["id"]].status \notin {200, 404}
    /\ csPc = "done" => csIdx = Len(csPage) + 1

\* C8 witness: after a 404 for one checkout session the read went on and
\* emitted the line items of the next one
C8_Witness ==
    /\ csPc = "done"
    /\ \E i, j \in 1..Len(csPage) :
         /\ i < j /\ j < csIdx
         /\ csSessions[csPage[i]["id"]].status = 404
         /\ CsEmittedFor(csPage[j]["id"]) # <<>>

(***************************************************************************)
(* A sub-stream read in its environment: an API that may fail, answer with *)
(* a page that has no data container, or return parent records without the *)
(* embedded container, and a consumer that may stop iterating.             *)
(***************************************************************************)
\* how a parent record embeds its children
Embeddings == {"present", "absent", "empty"}

\* the shapes of one parent: <<how its record embeds, how many children>>
EnvShapes ==
    {sh \in Embeddings \X (0..MaxChildren) : sh[1] # "present" => sh[2] = 0}

EnvInit ==
    /\ stream \in SubStreams
    /\ start_date \in StartDates
    /\ honoursObject = TRUE
    /\ \E n \in 1..MaxParents :
         \E shape \in [1..n -> EnvShapes] :
            /\ children = [p \in 1..n |-> Children(stream, p, shape[p][2], 0)]
            /\ embedding = [p \in 1..n |-> shape[p][1]]
    /\ pc = "parent_fetch" /\ token = None /\ page = <<>>
    /\ pidx = 0 /\ items = <<>> /\ iidx = 0 /\ stream_slice = None
    /\ ovToken = None /\ ovPage = <<>> /\ oidx = 0 /\ response = None
    /\ emitted = <<>> /\ requests = <<>>

\* what a fetch that fails leaves in place of a response
FetchError == [error |-> TRUE]

\* a response page that has no data container
PageWithoutData == [has_more |-> FALSE]

\* a fetch of the parent read whose error is taken for an empty page
ParentFetchFails_swallowed ==
    /\ pc = "parent_fetch"
    /\ requests' = Append(requests, ParentRequest)
    /\ response' = FetchError
    /\ page' = <<>>
    /\ pidx' = 1
    /\ pc' = "parent_iter"
    /\ UNCHANGED <<stream, start_date, honoursObject, children, embedding, token,
                   items, iidx, stream_slice, ovToken, ovPage, oidx, emitted>>
    /\ UNCHANGED <<incVars, csVars, fnVars>>

\* a fetch of the parent read fails: the exception leaves the loop over the
\* parent read, and read_records with it
ParentFetchFails ==
    /\ pc = "parent_fetch"
    /\ requests' = Append(requests, ParentRequest)
    /\ response' = FetchError
    /\ pc' = "raised"
    /\ UNCHANGED <<stream, start_date, honoursObject, children, embedding, token, page,
                   pidx, items, iidx, stream_slice, ovToken, ovPage, oidx, emitted>>
    /\ UNCHANGED <<incVars, csVars, fnVars>>

\* a fetch of the parent read is answered with a page without data
ParentPageWithoutData ==
    /\ pc = "parent_fetch"
    /\ requests' = Append(requests, ParentRequest)
    /\ response' = PageWithoutData
    /\ page' = parse_response(PageWithoutData)
    /\ pidx' = 1
    /\ pc' = "parent_iter"
    /\ UNCHANGED <<stream, start_date, honoursObject, children, embedding, token,
                   items, iidx, stream_slice, ovToken, ovPage, oidx, emitted>>
    /\ UNCHANGED <<incVars, csVars, fnVars>>

\* a fetch of the overflow read fails: the exception leaves the chain, the
\* loop and read_records
OverflowFetchFails ==
    /\ pc = "overflow_fetch"
    /\ requests' = Append(requests, OverflowRequest)
    /\ response' = FetchError
    /\ pc' = "raised"
    /\ UNCHANGED <<stream, start_date, honoursObject, children, embedding, token, page,
                   pidx, items, iidx, stream_slice, ovToken, ovPage, oidx, emitted>>
    /\ UNCHANGED <<incVars, csVars, fnVars>>

\* a fetch of the overflow read is answered with a page without data
OverflowPageWithoutData ==
    /\ pc = "overflow_fetch"
    /\ requests' = Append(requests, OverflowRequest)
    /\ response' = PageWithoutData
    /\ ovPage' = parse_response(PageWithoutData)
    /\ oidx' = 0
    /\ pc' = "overflow_iter"
    /\ UNCHANGED <<stream, start_date, honoursObject, children, embedding, token, page,
                   pidx, items, iidx, stream_slice, ovToken, emitted>>
    /\ UNCHANGED <<incVars, csVars, fnVars>>

\* the generator is suspended: not started yet, or at its yield
Suspended ==
    \/ pc = "parent_fetch" /\ requests = <<>>
    \/ pc = "embedded" /\ iidx > 0
    \/ pc = "overflow_iter" /\ oidx > 0

\* the consumer stops iterating: the suspended generator is closed
ConsumerStops ==
    /\ Suspended
    /\ pc' = "closed"
    /\ UNCHANGED <<stream, start_date, honoursObject, children, embedding, token, page,
                   pidx, items, iidx, stream_slice, ovToken, ovPage, oidx,
                   response, emitted, requests>>
    /\ UNCHANGED <<incVars, csVars, fnVars>>

InitEnv == EnvInit /\ IncIdle /\ CsIdle /\ FnIdle

NextEnv ==
    \/ FetchParentPage
    \/ ParentFetchFails
    \/ ParentPageWithoutData
    \/ ParentPageDone
    \/ TakeParentRecord
    \/ YieldEmbedded
    \/ EmbeddedDone
    \/ FetchOverflowPage
    \/ OverflowFetchFails
    \/ OverflowPageWithoutData
    \/ YieldOverflow
    \/ OverflowPageDone
    \/ ConsumerStops

SpecEnv == InitEnv /\ [][NextEnv]_vars

\* the last fetch was answered with a page that has no data container
DataLess ==
    /\ requests # <<>>
    /\ response # FetchError
    /\ "data" \notin DOMAIN response

\* the parent record has no embedded container, or an empty one
Bare(rec) ==
    \/ ~ Truthy(Get(rec, sub_items_attr(stream), None))
    \/ Get(Get(rec, sub_items_attr(stream), None), "data", <<>>) = <<>>

\* C13: a response page without a data container gives no record and no
\* error; a parent record whose embedded container is absent or empty gives
\* no child record and no request, and the read goes on with the next parent
\* record: when the read is done, the embedded items of every parent record
\* of the page were emitted
C13_MissingContainersAreEmpty ==
    /\ DataLess
       => /\ pc # "raised"
          /\ LET last == requests[Len(requests)]
             IN  IF last.for = 0
                 THEN page = <<>> /\ emitted = <<>>
                 ELSE /\ ovPage = <<>>
                      /\ EmittedFrom(emitted, last.for, "overflow") = {}
    /\ \A rec \in Handled :
          Bare(rec) => /\ EmittedFor(emitted, rec["id"]) = <<>>
                       /\ RequestsFor(requests, rec["id"]) = <<>>
    /\ pc = "done"
       => \A i \in 1..Len(page) :
             Cardinality(EmittedFrom(emitted, page[i]["id"], "embedded"))
                = Len(EmbeddedItems(stream, page[i]))

\* C13 witness: the read is done; the first parent record came without a
\* container or with an empty one, the second one's items were emitted and
\* its overflow read was answered with a page without data
C13_Witness ==
    /\ pc = "done"
    /\ Len(page) >= 2
    /\ ~ Truthy(Get(page[1], sub_items_attr(stream), None))
    /\ EmittedFor(emitted, page[2]["id"]) # <<>>
    /\ DataLess
    /\ requests[Len(requests)].for = page[2]["id"]

\* C14: a fetch of the parent read or of the overflow read that fails ends
\* the read with that error: the failure is not swallowed, and after it no
\* record is emitted and no request issued (no retry)
C14_FetchFailureIsFatal ==
    /\ [](response = FetchError => pc = "raised")
    /\ [][pc = "raised"
          => /\ pc' = "raised"
             /\ emitted' = emitted
             /\ requests' = requests]_vars

\* C14 witness: the fetch of the parent page failed and the read ended with
\* the error, no record emitted
C14_Witness ==
    /\ pc = "raised"
    /\ requests[Len(requests)].for = 0
    /\ response = FetchError
    /\ emitted = <<>>

\* C16: a request is issued only by a running read that has handed over
\* every record it holds ahead of the one asked for (the embedded items of
\* the parent record at hand before its overflow request, the whole parent
\* page before the next one); once the consumer has stopped, no request is
\* issued and no record emitted
C16_DemandDrivenFetching ==
    /\ [][requests' # requests
          => /\ pc \in {"parent_fetch", "overflow_fetch"}
             /\ iidx = Len(items)
             /\ oidx = Len(ovPage)
             /\ (pc = "parent_fetch" => (page = <<>> \/ pidx > Len(page)))
             /\ (pc = "overflow_fetch"
                 => Cardinality(EmittedFrom(emitted, record["id"], "embedded"))
                       = Len(EmbeddedItems(stream, record)))]_vars
    /\ [][pc = "closed"
          => /\ pc' = "closed"
             /\ requests' = requests
             /\ emitted' = emitted]_vars

\* C16 witness: the consumer stopped after an embedded item of a parent
\* record that has an overflow read to come, and no request for it exists
C16_Witness ==
    /\ pc = "closed"
    /\ emitted # <<>>
    /\ Truthy(stream_slice)
    /\ RequestsFor(requests, record["id"]) = <<>>


(***************************************************************************)
(* Request shaping of a sub-stream: request_params applied to the slice of *)
(* an overflow read and a page token.                                      *)
(***************************************************************************)
ReqInit ==
    /\ \E s \in SubStreams, p \in 1..MaxParents, a \in 1..MaxChildren,
          t \in 0..MaxChildren :
          fnIn = [stream |-> s,
                  stream_slice |-> (parent_id(s) :> p) @@
                                   ("starting_after" :> 10 * p + a),
                  next_page_token |-> IF t = 0 THEN None
                                      ELSE [starting_after |-> 10 * p + t]]
    /\ fnOut = None

\* the sub-stream builds the request of a page of the overflow read; base is
\* what StripeStream.request_params makes of the token, first the request of
\* the first page of the same slice
ReqBuildRequest ==
    /\ fnOut = None
    /\ fnOut' = [params |-> request_params(fnIn.stream, fnIn.stream_slice,
                                           fnIn.next_page_token),
                 base |-> StripeStream_request_params(fnIn.next_page_token),
                 first |-> request_params(fnIn.stream, fnIn.stream_slice, None)]
    /\ UNCHANGED fnIn
    /\ UNCHANGED <<subVars, incVars, csVars>>

InitReq == SubIdle /\ IncIdle /\ CsIdle /\ ReqInit

NextReq == ReqBuildRequest

SpecReq == InitReq /\ [][NextReq]_vars

\* C15: a request carries limit = 100 and every field of the page token as
\* it is; the slice's starting_after is in the request only when the token
\* has none (InvoiceLineItems and SubscriptionItems then send it), so the
\* request of a continuation page carries the token's starting_after, which
\* differs from that of the first request of the slice whenever the token
\* differs from the slice's starting_after
C15_RequestShaping ==
    fnOut # None
    => LET params == fnOut.params
           tk == fnIn.next_page_token
           sl == fnIn.stream_slice
       IN  /\ params["limit"] = 100
           /\ fnOut.base["limit"] = 100
           /\ \A k \in DOMAIN tk : params[k] = tk[k] /\ fnOut.base[k] = tk[k]
           /\ "starting_after" \notin DOMAIN tk
              => /\ "starting_after" \notin DOMAIN fnOut.base
                 /\ "starting_after" \in DOMAIN params
                    => params["starting_after"] = sl["starting_after"]
                 /\ fnIn.stream \in {"InvoiceLineItems", "SubscriptionItems"}
                    => "starting_after" \in DOMAIN params
           /\ ("starting_after" \in DOMAIN tk
               /\ tk["starting_after"] # sl["starting_after"])
              => /\ params["starting_after"] # sl["starting_after"]
                 /\ Get(params, "starting_after", 0)
                       # Get(fnOut.first, "starting_after", 0)

\* C15 witness: the request of a continuation page was built from a slice and
\* a token that name different items
C15_Witness ==
    /\ fnOut # None
    /\ fnIn.stream = "InvoiceLineItems"
    /\ "starting_after" \in DOMAIN fnIn.next_page_token
    /\ fnIn.next_page_token["starting_after"] # fnIn.stream_slice["starting_after"]
    /\ fnOut.first["starting_after"] = fnIn.stream_slice["starting_after"]

(***************************************************************************)
(* The parent scan of a sync: a sub-stream read or a                       *)
(* CheckoutSessionsLineItems read of a connector configured with a start   *)
(* date and a lookback window, a CursorState being persisted for the       *)
(* parent stream.                                                          *)
(***************************************************************************)
ScanInit ==
    /\ start_date \in StartDates
    /\ incConfig \in [start_date : {start_date},
                      lookback_window_days : 0..MaxLookback]
    /\ prior \in {None} \cup {"created" :> v : v \in CursorValues}
    /\ persisted = prior
    /\ stream_state = None /\ incRecords = <<>>
    /\ checkpoints = 0 /\ incPc = "idle" /\ incToken = None
    /\ incPage = <<>> /\ incIdx = 0 /\ incResponse = None
    /\ incEmitted = <<>> /\ incRequests = <<>>
    /\ \/ /\ stream \in SubStreams
          /\ incStream = parent(stream)
          /\ \E n \in 1..MaxParents :
               \E count \in [1..n -> {0, MaxChildren}] :
                  /\ children = [p \in 1..n |-> Children(stream, p, count[p], 0)]
                  /\ embedding = [p \in 1..n |-> "present"]
          /\ pc = "parent_fetch"
          /\ CsIdle
       \/ /\ stream = "InvoiceLineItems" /\ children = <<>> /\ embedding = <<>>
          /\ incStream = "CheckoutSessions"
          /\ pc = "idle"
          /\ \E n \in 1..MaxSessions :
               \E ln \in [1..n -> 0..MaxLineItems] :
                  csSessions = [i \in 1..n |->
                                   [id |-> i, status |-> 200, lines |-> ln[i]]]
          /\ csPc = "parent_fetch" /\ csToken = None /\ csPage = <<>>
          /\ csIdx = 0 /\ csItemToken = None /\ csResponse = None
          /\ csEmitted = <<>> /\ csRequests = <<>>
    /\ honoursObject = TRUE /\ token = None /\ page = <<>>
    /\ pidx = 0 /\ items = <<>> /\ iidx = 0 /\ stream_slice = None
    /\ ovToken = None /\ ovPage = <<>> /\ oidx = 0 /\ response = None
    /\ emitted = <<>> /\ requests = <<>>

InitScan == ScanInit /\ FnIdle

NextScan ==
    \/ FetchParentPage
    \/ ParentPageDone
    \/ TakeParentRecord
    \/ YieldEmbedded
    \/ EmbeddedDone
    \/ FetchOverflowPage
    \/ YieldOverflow
    \/ OverflowPageDone
    \/ CsFetchParentPage
    \/ CsReadLineItems
    \/ CsParentPageDone

SpecScan == InitScan /\ [][NextScan]_vars

\* the parameters carry the configured start_date as created[gte], or no
\* created[gte] when start_date is 0
BoundIsStartDate(params) ==
    IF start_date # 0
    THEN "created[gte]" \in DOMAIN params /\ params["created[gte]"] = start_date
    ELSE "created[gte]" \notin DOMAIN params

\* the requests of the read of the checkout sessions
CsParentRequests ==
    {i \in 1..Len(csRequests) : csRequests[i].path = <<"checkout", "sessions">>}

\* C17 as stated: whatever state is persisted and whatever lookback window is
\* configured, every parent request of a sub-stream read and of a
\* CheckoutSessionsLineItems read carries created[gte] = start_date (none
\* when start_date is 0), and the read leaves the CursorState as it was
C17_ParentBoundIsStartDate ==
    /\ \A i \in 1..Len(requests) :
          requests[i].for = 0 => BoundIsStartDate(requests[i].params)
    /\ \A i \in CsParentRequests : BoundIsStartDate(csRequests[i].params)
    /\ persisted = prior

\* C17 as amended: whatever state is persisted and whatever lookback window
\* is configured, every parent request of a sub-stream read carries
\* created[gte] = start_date (none when start_date is 0); the requests of the
\* read of the checkout sessions, which are not an incremental stream, carry
\* no created[gte] at all; and the read leaves the CursorState as it was
C17_ParentScanIgnoresState ==
    /\ \A i \in 1..Len(requests) :
          requests[i].for = 0 => BoundIsStartDate(requests[i].params)
    /\ \A i \in CsParentRequests :
          "created[gte]" \notin DOMAIN csRequests[i].params
    /\ persisted = prior
    /\ stream_state = None

\* C17 witness: a sub-stream read is done that was configured with a start
\* date and a lookback window, a later cursor value being persisted for the
\* parent stream
C17_Witness ==
    /\ pc = "done"
    /\ emitted # <<>>
    /\ start_date # 0
    /\ incConfig.lookback_window_days > 0
    /\ "created" \in DOMAIN persisted
    /\ persisted["created"] > start_date

=============================================================================
